---- MODULE Spec2Model ----
(***************************************************************************)
(* Model of fastapi-ingest/_endpoint.py: a FastAPI service with a health   *)
(* check (GET /) and an ingestion endpoint (POST /ingest) that inserts one *)
(* synthetic vitals_events row through a psycopg2 connection.              *)
(*                                                                         *)
(* The database client is psycopg2: `with psycopg2.connect(...) as conn`   *)
(* commits the transaction when the block is left normally and rolls it    *)
(* back when it is left by an exception; it does not close the connection. *)
(* The connection object is closed when the interpreter reclaims it: at    *)
(* the return of insert_row (its frame is the only holder), or, after an   *)
(* exception, when the traceback that holds the frame is dropped.          *)
(* The first statement on a connection opens the transaction (BEGIN), and  *)
(* PostgreSQL's NOW() is the start time of the current transaction.        *)
(***************************************************************************)
EXTENDS Integers, Sequences, FiniteSets, Bags

\* ---------------------------------------------------------------- bounds
\* Number of HTTP requests the hosting framework hands to the service.
NumReqs == 2
\* Last tick of the database clock.
MaxClock == 2
\* random.uniform(60, 100) is drawn on a grid of 1/Grain.
Grain == 8

Reqs == 1..NumReqs

\* ------------------------------------------------- program constants
ENV_VARS == <<"DB_USER", "DB_PASS", "DB_NAME", "INSTANCE_CONNECTION_NAME">>

PatientsExtra == {"P001", "P002", "P003", "P004"}

PATIENTS == {"P001", "P002", "P003"}

UniformLo == 60

UniformHi == 100

StatusOk == [status |-> "ok"]

Inserted == [result |-> "inserted"]

\* The generic response the hosting framework makes of an unhandled fault.
ServerError == [error |-> "Internal Server Error"]

NoResp == [none |-> TRUE]

DbStates == {"up", "unreachable", "rejecting"}

VARIABLES
  env,       \* the environment variables that are set (fixed at process start)
  phase,     \* "starting" | "running" | "failed"
  loaded,    \* how many of ENV_VARS the module has read (lines 7-10)
  db,        \* availability of the database
  clock,     \* the database's clock
  kind,      \* per request: "none" (not arrived) | "health" | "ingest"
  pc,        \* per request: position in its handler
  resp,      \* per request: the response sent
  fault,     \* per request: where the fault was raised, "none" if none
  connOf,    \* per request: the connection held by insert_row's frame, 0 if none
  args,      \* per request in insert_row: the statement's parameter tuple
  issuedAt,  \* per request in insert_row: database time of the cur.execute call
  nConnect,  \* per request: calls of psycopg2.connect
  nExecute,  \* per request: calls of cur.execute
  conns,     \* the connection objects, by the connect call that makes them
  table      \* public.vitals_events: the bag of committed rows

vars == <<env, phase, loaded, db, clock, kind, pc, resp, fault, connOf, args,
          issuedAt, nConnect, nExecute, conns, table>>

reqVars == <<kind, pc, resp, fault, connOf, args, issuedAt, nConnect, nExecute>>

NoArgs == [none |-> TRUE]

\* ------------------------------------------------------ pure functions
Abs(x) == IF x < 0 THEN -x ELSE x

\* A mis-rounding: truncation to the next lower tenth.
RoundTrunc(u) == (10 * u) \div Grain

\* round(x, 1) of x = u/Grain, in tenths: the nearest tenth, ties to even.
Round1(u) ==
  LET q == (10 * u) \div Grain
      r == (10 * u) % Grain
  IN  IF 2 * r < Grain THEN q
      ELSE IF 2 * r > Grain THEN q + 1
      ELSE IF q % 2 = 0 THEN q ELSE q + 1

\* random.uniform(60, 100): the draws, in units of 1/Grain.
Uniform == (UniformLo * Grain)..(UniformHi * Grain)

\* The draws the concurrent specification samples: both ends of the range.
SampleDraws == {UniformLo * Grain, UniformHi * Grain}

\* uuid.uuid4(): a fresh identifier per call; the request stands for it.
Uuid4(r) == r

\* The parameter tuple of lines 24-33, for patient p and draw u.
Params(r, p, u) ==
  [event_id |-> Uuid4(r), patient_id |-> p, loinc_code |-> "8867-4",
   code_display |-> "Heart rate", value_num |-> Round1(u), draw |-> u,
   unit |-> "beats/min", source |-> "synthetic",
   raw |-> "{\"note\": \"fastapi demo\"}"]

\* date_trunc-like coarsening of the transaction time.
NowTruncated(txStart) == (txStart \div 2) * 2

\* NOW() in a transaction that started at txStart: the start time of the
\* current transaction.
NOW(txStart) == txStart

\* The row SQL_QUERY inserts, in a transaction started at txStart, for the
\* parameters a.
RowAt(txStart, a) ==
  [event_id |-> a.event_id, patient_id |-> a.patient_id,
   loinc_code |-> a.loinc_code, code_display |-> a.code_display,
   value_num |-> a.value_num, unit |-> a.unit, effective_ts |-> NOW(txStart),
   source |-> a.source, raw |-> a.raw]

\* A connection object: not yet created ("none"), "open" or "closed"; the
\* start time of its current transaction (-1 outside one) and the rows the
\* transaction has inserted and not yet committed.
NoConn == [status |-> "none", txStart |-> -1, tx |-> <<>>]

NewConn == [status |-> "open", txStart |-> -1, tx |-> <<>>]

OpenConns == {c \in Reqs : conns[c].status = "open"}

\* COMMIT of the transaction tx: its rows join the table.
RECURSIVE Committed(_, _)
Committed(t, tx) ==
  IF tx = <<>> THEN t ELSE Committed(t (+) SetToBag({Head(tx)}), Tail(tx))

\* The number of committed rows that carry request r's event_id.
RowsOf(r) ==
  LET mine == {row \in BagToSet(table) : row.event_id = Uuid4(r)}
  IN  BagCardinality([row \in mine |-> table[row]])

\* ---------------------------------------------------------------- Init
Init ==
  /\ env \in SUBSET {ENV_VARS[i] : i \in 1..Len(ENV_VARS)}
  /\ phase = "starting"
  /\ loaded = 0
  /\ db \in DbStates
  /\ clock = 0
  /\ kind = [r \in Reqs |-> "none"]
  /\ pc = [r \in Reqs |-> "idle"]
  /\ resp = [r \in Reqs |-> NoResp]
  /\ fault = [r \in Reqs |-> "none"]
  /\ connOf = [r \in Reqs |-> 0]
  /\ args = [r \in Reqs |-> NoArgs]
  /\ issuedAt = [r \in Reqs |-> -1]
  /\ nConnect = [r \in Reqs |-> 0]
  /\ nExecute = [r \in Reqs |-> 0]
  /\ conns = [c \in Reqs |-> NoConn]
  /\ table = EmptyBag

\* ------------------------------------------------------------- startup
\* os.environ.get-style loading: a missing variable is read as None.
LoadConfigLenient ==
  /\ phase = "starting"
  /\ loaded < Len(ENV_VARS)
  /\ loaded' = loaded + 1
  /\ UNCHANGED <<env, phase, db, clock, conns, table>>
  /\ UNCHANGED reqVars

\* Lines 7-10: os.environ[NAME], in order; a missing name raises KeyError at
\* import, and the process never serves.
LoadConfig ==
  /\ phase = "starting"
  /\ loaded < Len(ENV_VARS)
  /\ IF ENV_VARS[loaded + 1] \in env
       THEN loaded' = loaded + 1 /\ phase' = phase
       ELSE loaded' = loaded /\ phase' = "failed"
  /\ UNCHANGED <<env, db, clock, conns, table>>
  /\ UNCHANGED reqVars

\* The module is imported to its end (routes registered): the app serves.
StartServing ==
  /\ phase = "starting"
  /\ loaded = Len(ENV_VARS)
  /\ phase' = "running"
  /\ UNCHANGED <<env, loaded, db, clock, conns, table>>
  /\ UNCHANGED reqVars

\* --------------------------------------------------------- environment
DbChange ==
  /\ \E s \in DbStates \ {db} : db' = s
  /\ UNCHANGED <<env, phase, loaded, clock, conns, table>>
  /\ UNCHANGED reqVars

Tick ==
  /\ clock < MaxClock
  /\ clock' = clock + 1
  /\ UNCHANGED <<env, phase, loaded, db, conns, table>>
  /\ UNCHANGED reqVars

\* -------------------------------------------------------------- GET /
\* A health check that probes the database first.
HealthChecksDb(r) ==
  /\ phase = "running"
  /\ pc[r] = "idle"
  /\ kind' = [kind EXCEPT ![r] = "health"]
  /\ pc' = [pc EXCEPT ![r] = IF db = "up" THEN "done" ELSE "faulted"]
  /\ resp' = [resp EXCEPT ![r] = IF db = "up" THEN StatusOk ELSE ServerError]
  /\ fault' = [fault EXCEPT ![r] = IF db = "up" THEN "none" ELSE "connect"]
  /\ nConnect' = [nConnect EXCEPT ![r] = 1]
  /\ UNCHANGED <<env, phase, loaded, db, clock, conns, table>>
  /\ UNCHANGED <<connOf, args, issuedAt, nExecute>>

\* Lines 36-38.
Health(r) ==
  /\ phase = "running"
  /\ pc[r] = "idle"
  /\ kind' = [kind EXCEPT ![r] = "health"]
  /\ pc' = [pc EXCEPT ![r] = "done"]
  /\ resp' = [resp EXCEPT ![r] = StatusOk]
  /\ UNCHANGED <<env, phase, loaded, db, clock, conns, table>>
  /\ UNCHANGED <<fault, connOf, args, issuedAt, nConnect, nExecute>>

\* -------------------------------------------------------- POST /ingest
\* Lines 40-42: the handler is entered and calls insert_row.
IngestCall(r) ==
  /\ phase = "running"
  /\ pc[r] = "idle"
  /\ kind' = [kind EXCEPT ![r] = "ingest"]
  /\ pc' = [pc EXCEPT ![r] = "connect"]
  /\ UNCHANGED <<env, phase, loaded, db, clock, conns, table>>
  /\ UNCHANGED <<resp, fault, connOf, args, issuedAt, nConnect, nExecute>>

\* A module-level connection reused by every request.
ConnectShared(r) ==
  /\ pc[r] = "connect"
  /\ db = "up"
  /\ nConnect' = [nConnect EXCEPT ![r] = @ + 1]
  /\ IF OpenConns # {}
       THEN /\ connOf' = [connOf EXCEPT ![r] = CHOOSE c \in OpenConns : TRUE]
            /\ conns' = conns
       ELSE /\ conns' = [conns EXCEPT ![r] = NewConn]
            /\ connOf' = [connOf EXCEPT ![r] = r]
  /\ pc' = [pc EXCEPT ![r] = "execute"]
  /\ UNCHANGED <<env, phase, loaded, db, clock, table>>
  /\ UNCHANGED <<kind, resp, fault, args, issuedAt, nExecute>>

\* Line 20, psycopg2.connect succeeds: a new connection object (named by the
\* call that made it), bound to conn.
ConnectOk(r) ==
  /\ pc[r] = "connect"
  /\ db = "up"
  /\ nConnect' = [nConnect EXCEPT ![r] = @ + 1]
  /\ conns' = [conns EXCEPT ![r] = NewConn]
  /\ connOf' = [connOf EXCEPT ![r] = r]
  /\ pc' = [pc EXCEPT ![r] = "execute"]
  /\ UNCHANGED <<env, phase, loaded, db, clock, table>>
  /\ UNCHANGED <<kind, resp, fault, args, issuedAt, nExecute>>

\* A connect wrapped in a retry loop.
ConnectFailRetry(r) ==
  /\ pc[r] = "connect"
  /\ db # "up"
  /\ nConnect[r] < 3
  /\ nConnect' = [nConnect EXCEPT ![r] = @ + 1]
  /\ UNCHANGED <<env, phase, loaded, db, clock, conns, table>>
  /\ UNCHANGED <<kind, pc, resp, fault, connOf, args, issuedAt, nExecute>>

\* Line 20, psycopg2.connect raises (database unreachable or credentials
\* rejected): nothing catches it, the framework answers with a server error.
ConnectFail(r) ==
  /\ pc[r] = "connect"
  /\ db # "up"
  /\ nConnect' = [nConnect EXCEPT ![r] = @ + 1]
  /\ pc' = [pc EXCEPT ![r] = "faulted"]
  /\ fault' = [fault EXCEPT ![r] = "connect"]
  /\ resp' = [resp EXCEPT ![r] = ServerError]
  /\ UNCHANGED <<env, phase, loaded, db, clock, conns, table>>
  /\ UNCHANGED <<kind, connOf, args, issuedAt, nExecute>>

\* Lines 21-34: the parameter tuple is evaluated from the draws in D and
\* cur.execute is called with it.
ExecuteIssue(r, D) ==
  /\ pc[r] = "execute"
  /\ \E p \in PATIENTS, u \in D :
       args' = [args EXCEPT ![r] = Params(r, p, u)]
  /\ issuedAt' = [issuedAt EXCEPT ![r] = clock]
  /\ nExecute' = [nExecute EXCEPT ![r] = @ + 1]
  /\ pc' = [pc EXCEPT ![r] = "in_flight"]
  /\ UNCHANGED <<env, phase, loaded, db, clock, conns, table>>
  /\ UNCHANGED <<kind, resp, fault, connOf, nConnect>>

\* The server runs what cur.execute sent: BEGIN, which opens the transaction
\* at the current database time, then SQL_QUERY (lines 12-17) inside it.
ServerExecute(r) ==
  /\ pc[r] = "in_flight"
  /\ Len(conns[connOf[r]].tx) < nExecute[r]
  /\ conns' = [conns EXCEPT ![connOf[r]] =
                LET began == [@ EXCEPT !.txStart = IF @ = -1 THEN clock ELSE @]
                IN  [began EXCEPT !.tx = Append(@, RowAt(began.txStart, args[r]))]]
  /\ UNCHANGED <<env, phase, loaded, db, clock, table>>
  /\ UNCHANGED reqVars

\* cur.execute returns and the cursor block is left (lines 21-34).
ExecuteOk(r) ==
  /\ pc[r] = "in_flight"
  /\ Len(conns[connOf[r]].tx) >= nExecute[r]
  /\ pc' = [pc EXCEPT ![r] = "commit"]
  /\ UNCHANGED <<env, phase, loaded, db, clock, conns, table>>
  /\ UNCHANGED <<kind, resp, fault, connOf, args, issuedAt, nConnect, nExecute>>

\* On an exception the connection block commits instead of rolling back.
ExecuteFailCommits(r) ==
  /\ pc[r] = "in_flight"
  /\ table' = Committed(table, conns[connOf[r]].tx)
  /\ conns' = [conns EXCEPT ![connOf[r]].tx = <<>>, ![connOf[r]].txStart = -1]
  /\ pc' = [pc EXCEPT ![r] = "faulted"]
  /\ fault' = [fault EXCEPT ![r] = "execute"]
  /\ resp' = [resp EXCEPT ![r] = ServerError]
  /\ args' = [args EXCEPT ![r] = NoArgs]
  /\ issuedAt' = [issuedAt EXCEPT ![r] = -1]
  /\ UNCHANGED <<env, phase, loaded, db, clock>>
  /\ UNCHANGED <<kind, connOf, nConnect, nExecute>>

\* cur.execute raises (constraint violation, malformed statement, lost
\* connection): the connection block is left by the exception, which rolls
\* the transaction back and re-raises; the connection stays open, held by
\* the frame in the traceback.
ExecuteFail(r) ==
  /\ pc[r] = "in_flight"
  /\ conns' = [conns EXCEPT ![connOf[r]].tx = <<>>, ![connOf[r]].txStart = -1]
  /\ pc' = [pc EXCEPT ![r] = "faulted"]
  /\ fault' = [fault EXCEPT ![r] = "execute"]
  /\ resp' = [resp EXCEPT ![r] = ServerError]
  /\ args' = [args EXCEPT ![r] = NoArgs]
  /\ issuedAt' = [issuedAt EXCEPT ![r] = -1]
  /\ UNCHANGED <<env, phase, loaded, db, clock, table>>
  /\ UNCHANGED <<kind, connOf, nConnect, nExecute>>

\* The connection block is left without a commit.
CommitSkipped(r) ==
  /\ pc[r] = "commit"
  /\ conns' = [conns EXCEPT ![connOf[r]].tx = <<>>, ![connOf[r]].txStart = -1]
  /\ pc' = [pc EXCEPT ![r] = "return"]
  /\ UNCHANGED <<env, phase, loaded, db, clock, table>>
  /\ UNCHANGED <<kind, resp, fault, connOf, args, issuedAt, nConnect, nExecute>>

\* Line 20, the connection block is left normally: conn.commit() succeeds.
CommitOk(r) ==
  /\ pc[r] = "commit"
  /\ table' = Committed(table, conns[connOf[r]].tx)
  /\ conns' = [conns EXCEPT ![connOf[r]].tx = <<>>, ![connOf[r]].txStart = -1]
  /\ pc' = [pc EXCEPT ![r] = "return"]
  /\ UNCHANGED <<env, phase, loaded, db, clock>>
  /\ UNCHANGED <<kind, resp, fault, connOf, args, issuedAt, nConnect, nExecute>>

\* conn.commit() raises and the server has not committed (the transaction
\* is aborted); the exception propagates.
CommitFail(r) ==
  /\ pc[r] = "commit"
  /\ conns' = [conns EXCEPT ![connOf[r]].tx = <<>>, ![connOf[r]].txStart = -1]
  /\ pc' = [pc EXCEPT ![r] = "faulted"]
  /\ fault' = [fault EXCEPT ![r] = "commit"]
  /\ resp' = [resp EXCEPT ![r] = ServerError]
  /\ args' = [args EXCEPT ![r] = NoArgs]
  /\ issuedAt' = [issuedAt EXCEPT ![r] = -1]
  /\ UNCHANGED <<env, phase, loaded, db, clock, table>>
  /\ UNCHANGED <<kind, connOf, nConnect, nExecute>>

\* conn.commit() raises although the server has committed: the connection
\* is lost after the server applied COMMIT and before its confirmation
\* reached the client.
CommitAckLost(r) ==
  /\ pc[r] = "commit"
  /\ table' = Committed(table, conns[connOf[r]].tx)
  /\ conns' = [conns EXCEPT ![connOf[r]].tx = <<>>, ![connOf[r]].txStart = -1]
  /\ pc' = [pc EXCEPT ![r] = "faulted"]
  /\ fault' = [fault EXCEPT ![r] = "commit"]
  /\ resp' = [resp EXCEPT ![r] = ServerError]
  /\ args' = [args EXCEPT ![r] = NoArgs]
  /\ issuedAt' = [issuedAt EXCEPT ![r] = -1]
  /\ UNCHANGED <<env, phase, loaded, db, clock>>
  /\ UNCHANGED <<kind, connOf, nConnect, nExecute>>

\* insert_row returns (its frame, the only holder of conn, is reclaimed and
\* the connection object closes) and line 43 returns the acknowledgment.
IngestReturn(r) ==
  /\ pc[r] = "return"
  /\ conns' = [conns EXCEPT ![connOf[r]].status = "closed"]
  /\ connOf' = [connOf EXCEPT ![r] = 0]
  /\ pc' = [pc EXCEPT ![r] = "done"]
  /\ resp' = [resp EXCEPT ![r] = Inserted]
  /\ args' = [args EXCEPT ![r] = NoArgs]
  /\ issuedAt' = [issuedAt EXCEPT ![r] = -1]
  /\ UNCHANGED <<env, phase, loaded, db, clock, table>>
  /\ UNCHANGED <<kind, fault, nConnect, nExecute>>

\* After a fault the traceback is dropped, insert_row's frame is reclaimed
\* and the connection object it held closes.
ReleaseTraceback(r) ==
  /\ pc[r] = "faulted"
  /\ connOf[r] # 0
  /\ conns' = [conns EXCEPT ![connOf[r]].status = "closed"]
  /\ connOf' = [connOf EXCEPT ![r] = 0]
  /\ UNCHANGED <<env, phase, loaded, db, clock, table>>
  /\ UNCHANGED <<kind, pc, resp, fault, args, issuedAt, nConnect, nExecute>>

\* ------------------------------------------------------- specifications
Request(r, D) ==
  \/ Health(r)
  \/ IngestCall(r)
  \/ ConnectOk(r)
  \/ ConnectFail(r)
  \/ ExecuteIssue(r, D)
  \/ ServerExecute(r)
  \/ ExecuteOk(r)
  \/ ExecuteFail(r)
  \/ CommitOk(r)
  \/ CommitFail(r)
  \/ CommitAckLost(r)
  \/ IngestReturn(r)
  \/ ReleaseTraceback(r)

\* The service under concurrent requests, the database clock standing still.
Next ==
  \/ LoadConfig
  \/ StartServing
  \/ DbChange
  \/ \E r \in Reqs : Request(r, SampleDraws)

Spec == Init /\ [][Next]_vars

\* One request followed in full: its value drawn from the whole grid of
\* random.uniform, against a running database clock.
NextSingle ==
  \/ LoadConfig
  \/ StartServing
  \/ DbChange
  \/ Tick
  \/ Request(1, Uniform)

SpecSingle == Init /\ [][NextSingle]_vars

\* ---------------------------------------------------------------- claims
AllEnv == {ENV_VARS[i] : i \in 1..Len(ENV_VARS)}

Terminated(r) == pc[r] \in {"done", "faulted"}

TxOf(r) == conns[connOf[r]].tx

SeqRows(q) == {q[i] : i \in 1..Len(q)}

\* The committed row carrying r's event_id is the one r generated.
RowIsMine(r) ==
  \E row \in BagToSet(table) :
    /\ row.event_id = args[r].event_id
    /\ row.patient_id = args[r].patient_id
    /\ row.value_num = args[r].value_num
    /\ row.loinc_code = "8867-4"
    /\ row.code_display = "Heart rate"
    /\ row.unit = "beats/min"
    /\ row.source = "synthetic"

RECURSIVE SumRows(_)
SumRows(R) ==
  IF R = {} THEN 0
  ELSE LET r == CHOOSE x \in R : TRUE IN RowsOf(r) + SumRows(R \ {r})

Successes == {r \in Reqs : kind[r] = "ingest" /\ resp[r] = Inserted}

\* C1: every POST /ingest that completes without a fault answers
\* {"result": "inserted"}, and the table then holds exactly one committed row
\* of that request (not zero, not two), the row the request generated.
C1_SuccessInsertsExactlyOne ==
  \A r \in Reqs :
    /\ (kind[r] = "ingest" /\ pc[r] = "done") =>
         (resp[r] = Inserted /\ RowsOf(r) = 1)
    /\ pc[r] = "return" => (RowsOf(r) = 1 /\ RowIsMine(r))
    /\ resp[r] = Inserted => pc[r] = "done"

C1_Witness ==
  \E r \in Reqs :
    kind[r] = "ingest" /\ pc[r] = "done" /\ resp[r] = Inserted /\ RowsOf(r) = 1

\* C2, as claimed: in every terminal state of a POST /ingest either the row
\* is committed and the acknowledgment returned, or the request faulted (at
\* connect, execute or commit) and no row of it is committed; the
\* acknowledgment never precedes the commit.
C2_NoPartialSuccess ==
  \A r \in Reqs :
    /\ (kind[r] = "ingest" /\ pc[r] = "done") =>
         (resp[r] = Inserted /\ RowsOf(r) = 1)
    /\ pc[r] = "faulted" => (resp[r] = ServerError /\ RowsOf(r) = 0)
    /\ resp[r] = Inserted => RowsOf(r) = 1

\* C2, amended: the acknowledgment is returned only after the commit, with
\* exactly one row committed; a request that faulted at connect or at execute
\* has no row committed; a request that faulted at commit has at most one row
\* committed (one exactly when the server had applied the commit before the
\* fault reached the client), and answers with the server error either way.
C2_NoPartialSuccessBeforeCommit ==
  \A r \in Reqs :
    /\ (kind[r] = "ingest" /\ pc[r] = "done") =>
         (resp[r] = Inserted /\ RowsOf(r) = 1)
    /\ pc[r] = "faulted" =>
         /\ resp[r] = ServerError
         /\ fault[r] \in {"connect", "execute"} => RowsOf(r) = 0
         /\ fault[r] = "commit" => RowsOf(r) <= 1
    /\ resp[r] = Inserted => RowsOf(r) = 1
    /\ pc[r] \in {"connect", "execute", "in_flight", "commit"} =>
         (resp[r] = NoResp /\ RowsOf(r) = 0)

C2_Witness ==
  \E r \in Reqs :
    /\ pc[r] = "faulted" /\ fault[r] = "execute"
    /\ nExecute[r] = 1 /\ RowsOf(r) = 0 /\ resp[r] = ServerError

\* C3, as claimed: once a request has terminated (acknowledged, or faulted at
\* connect, execute or commit) no connection it opened is still open, so no
\* connection is open whenever no request is in progress.
C3_ConnectionReleased ==
  /\ \A r \in Reqs :
       Terminated(r) => (connOf[r] = 0 /\ conns[r].status # "open")
  /\ (\A r \in Reqs : pc[r] = "idle" \/ Terminated(r)) => OpenConns = {}

\* C4: while the service runs, GET / is answerable whatever the state of the
\* database, answers {"status": "ok"}, and changes nothing but that request's
\* own response: no connection, no statement, no row.
C4_HealthAlwaysOkNoEffects ==
  /\ [](\A r \in Reqs : (phase = "running" /\ pc[r] = "idle") => ENABLED Health(r))
  /\ [][\A r \in Reqs :
          (pc[r] = "idle" /\ kind'[r] = "health") =>
            /\ pc'[r] = "done" /\ resp'[r] = StatusOk /\ fault'[r] = "none"
            /\ table' = table /\ conns' = conns /\ connOf' = connOf
            /\ nConnect' = nConnect /\ nExecute' = nExecute
            /\ args' = args /\ issuedAt' = issuedAt
            /\ db' = db /\ clock' = clock /\ phase' = phase
            /\ \A o \in Reqs \ {r} :
                 pc'[o] = pc[o] /\ resp'[o] = resp[o] /\ kind'[o] = kind[o]
      ]_vars

C4_Witness ==
  \E r \in Reqs :
    /\ kind[r] = "health" /\ pc[r] = "done" /\ resp[r] = StatusOk
    /\ db = "unreachable" /\ nConnect[r] = 0

\* C5: with a required environment variable missing the service never
\* reaches the running state, serves no request, opens no connection and
\* inserts no row.
C5_MissingEnvNeverServes ==
  env # AllEnv =>
    /\ phase # "running"
    /\ \A r \in Reqs : kind[r] = "none" /\ pc[r] = "idle" /\ resp[r] = NoResp
    /\ \A c \in Reqs : conns[c].status = "none"
    /\ table = EmptyBag

C5_Witness == env # AllEnv /\ phase = "failed" /\ loaded = 3

\* C6: the patient identifier passed to the insert, and that of every row,
\* pending or committed, is one of P001, P002, P003.
C6_PatientInFixedSet ==
  /\ \A r \in Reqs :
       args[r] # NoArgs => args[r].patient_id \in {"P001", "P002", "P003"}
  /\ \A c \in Reqs : \A row \in SeqRows(conns[c].tx) :
       row.patient_id \in {"P001", "P002", "P003"}
  /\ \A row \in BagToSet(table) : row.patient_id \in {"P001", "P002", "P003"}

C6_Witness ==
  \A p \in {"P001", "P003"} :
    \E row \in BagToSet(table) : row.patient_id = p

\* C7: the inserted value, in tenths, is an integer from 600 to 1000 and is
\* a tenth nearest to the draw from [60, 100] it was rounded from, the
\* boundary draws 60 and 100 included.
C7_ValueRoundedInRange ==
  /\ \A r \in Reqs :
       args[r] # NoArgs =>
         /\ args[r].value_num \in 600..1000
         /\ 2 * Abs(10 * args[r].draw - Grain * args[r].value_num) <= Grain
  /\ \A row \in BagToSet(table) : row.value_num \in 600..1000

C7_Witness ==
  /\ \E row \in BagToSet(table) : row.value_num = 1000
  /\ pc[1] = "return" /\ args[1].draw = 100 * Grain

\* C8, as claimed: under any interleaving each ingest request uses its own
\* connection, its transaction holds only its own row, a request in progress
\* can still succeed or fail whatever the others did, and the number of
\* committed rows equals the number of ingest requests that returned success.
C8_RequestsIndependent ==
  /\ \A r1, r2 \in Reqs :
       (r1 # r2 /\ connOf[r1] # 0) => connOf[r1] # connOf[r2]
  /\ \A r \in Reqs : connOf[r] # 0 =>
       \A row \in SeqRows(TxOf(r)) : row.event_id = Uuid4(r)
  /\ \A r \in Reqs : pc[r] = "commit" =>
       (ENABLED CommitOk(r) /\ ENABLED CommitFail(r))
  /\ BagCardinality(table) = Cardinality(Successes \cup {r \in Reqs : pc[r] = "return"})

\* C8, amended: each ingest request uses its own connection, its transaction
\* holds only its own row, a request in progress can still succeed or fail
\* whatever the others did, and every committed row belongs to one ingest
\* request that reached its commit, at most one row per request: exactly one
\* for a request that returned success, none for one that faulted at connect
\* or execute, so the number of committed rows is at least the number of
\* successes and exceeds it only by requests that faulted at commit.
C8_RequestsIndependentRows ==
  /\ \A r1, r2 \in Reqs :
       (r1 # r2 /\ connOf[r1] # 0) => connOf[r1] # connOf[r2]
  /\ \A r \in Reqs : connOf[r] # 0 =>
       \A row \in SeqRows(TxOf(r)) : row.event_id = Uuid4(r)
  /\ \A r \in Reqs : pc[r] = "commit" =>
       (ENABLED CommitOk(r) /\ ENABLED CommitFail(r))
  /\ BagCardinality(table) = SumRows(Reqs)
  /\ \A r \in Reqs :
       /\ RowsOf(r) <= 1
       /\ r \in Successes => RowsOf(r) = 1
       /\ RowsOf(r) = 1 =>
            \/ pc[r] \in {"return", "done"}
            \/ pc[r] = "faulted" /\ fault[r] = "commit"

C8_Witness ==
  \E r1, r2 \in Reqs :
    /\ r1 # r2
    /\ pc[r1] = "in_flight" /\ pc[r2] = "in_flight"
    /\ TxOf(r1) # <<>> /\ TxOf(r2) # <<>>

\* C9: a request calls psycopg2.connect at most once and cur.execute at most
\* once, and once it has faulted it stays faulted and attempts nothing more.
C9_SingleAttempt ==
  /\ [](\A r \in Reqs : nConnect[r] <= 1 /\ nExecute[r] <= 1)
  /\ [][\A r \in Reqs :
          pc[r] = "faulted" =>
            /\ pc'[r] = "faulted" /\ resp'[r] = ServerError
            /\ nConnect'[r] = nConnect[r] /\ nExecute'[r] = nExecute[r]
      ]_vars

C9_Witness ==
  \E r \in Reqs :
    /\ pc[r] = "faulted" /\ fault[r] = "connect"
    /\ nConnect[r] = 1 /\ nExecute[r] = 0 /\ db = "up"

\* C10: the effective_ts of every row a request inserts, pending or committed,
\* is at or after the database time at which the request called cur.execute.
C10_TimestampNotBeforeIssue ==
  \A r \in Reqs :
    issuedAt[r] # -1 =>
      /\ connOf[r] # 0 =>
           \A row \in SeqRows(TxOf(r)) : row.effective_ts >= issuedAt[r]
      /\ \A row \in BagToSet(table) :
           row.event_id = Uuid4(r) => row.effective_ts >= issuedAt[r]

C10_Witness ==
  /\ pc[1] = "return" /\ issuedAt[1] = 1
  /\ \E row \in BagToSet(table) : row.event_id = Uuid4(1) /\ row.effective_ts = 2

====
